---- MODULE Spec2Model ----
(***************************************************************************)
(* Model of old_code/current_load.py: the CurrentLoad tracker that follows *)
(* the load review products on disk and answers "state at time / at VCDU"  *)
(* queries, switching to newer loads when a query crosses the boundary.    *)
(*                                                                         *)
(* Time tags "YYYY:DOY:HH:MM:SS.mmm" are fixed-width strings compared      *)
(* lexically; they are modelled by naturals 1..MaxTime with the same       *)
(* order.  A line of a .svrdb file is modelled by the pair of its first    *)
(* two tokens.  The code is Python 2 (str output of Popen, integer "/").   *)
(***************************************************************************)
EXTENDS Integers, Sequences, FiniteSets, TLC

VARIABLES mtime, pc, loads, last, da, db, dres, scan

vars == <<mtime, pc, loads, last, da, db, dres, scan>>

(***************************************************************************)
(* Program constants                                                       *)
(***************************************************************************)
vcduWrap == 16777216
startIndex == 40
\* Python None, and an attribute that was never assigned
None == -1
NoAttr == -2

(***************************************************************************)
(* Bounds of the model                                                     *)
(***************************************************************************)
\* directory modification times are 1..MaxMtime (0: directory absent)
MaxMtime == 3
\* time tags are 1..MaxTime
MaxTime == 5
\* margin around 0, 2^23 and 2^24-1 of the counters given to deltaVCDU
DeltaK == 2

Times == 1..MaxTime
Mtimes == 1..MaxMtime

\* VCDU values used by the callers of the VCDU queries
VQuery == {3, 10, 13, vcduWrap - 8}

\* Counters around the interesting points of the cycle
CounterVals ==
    (0..DeltaK) \cup ((vcduWrap \div 2 - DeltaK)..(vcduWrap \div 2 + DeltaK))
                \cup ((vcduWrap - 1 - DeltaK)..(vcduWrap - 1))

(***************************************************************************)
(* deltaVCDU                                                               *)
(***************************************************************************)
Abs(x) == IF x < 0 THEN -x ELSE x

\* deltaVCDU without the elif branch: a positive difference is never wrapped
deltaVCDU_NoWrapDown(a, b) ==
    LET d == b - a IN
    IF d < 0
    THEN IF Abs(d) > Abs(d + vcduWrap) THEN d + vcduWrap ELSE d
    ELSE d

\* deltaVCDU without the wrap of a negative difference
deltaVCDU_NoWrapUp(a, b) ==
    LET d == b - a IN
    IF d < 0 THEN d
    ELSE IF d > Abs(d - vcduWrap) THEN d - vcduWrap ELSE d

deltaVCDU(a, b) ==
    LET d == b - a IN
    IF d < 0
    THEN IF Abs(d) > Abs(d + vcduWrap) THEN d + vcduWrap ELSE d
    ELSE IF d > Abs(d - vcduWrap) THEN d - vcduWrap ELSE d

(***************************************************************************)
(* The load review directories.  The content of a directory is fixed; the *)
(* environment decides when it appears and with which modification time.   *)
(***************************************************************************)
Rec(t, v) == [time |-> t, vcdu |-> v]

\* startIndex leading lines followed by the load's own state vectors
MkSvrdb(carry, tail) ==
    [k \in 1..(startIndex + Len(tail)) |->
        IF k <= startIndex THEN carry ELSE tail[k - startIndex]]

LoadTable == <<
    \* a load that ends just before the VCDU counter wraps
    [name   |-> [date |-> 1, rev |-> 1, ok |-> TRUE],
     hrcsel |-> [exists |-> TRUE, first |-> 1],
     svrdb  |-> [exists |-> TRUE,
                 lines |-> MkSvrdb(Rec(1, vcduWrap - 10),
                                   <<Rec(2, vcduWrap - 9), Rec(3, vcduWrap - 8),
                                     Rec(3, vcduWrap - 7), Rec(4, vcduWrap - 6)>>)]],
    \* a load that starts after the wrap
    [name   |-> [date |-> 2, rev |-> 1, ok |-> TRUE],
     hrcsel |-> [exists |-> TRUE, first |-> 4],
     svrdb  |-> [exists |-> TRUE,
                 lines |-> MkSvrdb(Rec(4, 5),
                                   <<Rec(4, 12), Rec(5, 14), Rec(5, 16)>>)]],
    \* a load whose first state vector has VCDU 0
    [name   |-> [date |-> 3, rev |-> 1, ok |-> TRUE],
     hrcsel |-> [exists |-> TRUE, first |-> 3],
     svrdb  |-> [exists |-> TRUE,
                 lines |-> MkSvrdb(Rec(1, 0), <<Rec(4, 18), Rec(5, 20)>>)]],
    \* a later revision of the same date, not yet filled in
    [name   |-> [date |-> 3, rev |-> 2, ok |-> TRUE],
     hrcsel |-> [exists |-> TRUE, first |-> None],
     svrdb  |-> [exists |-> TRUE, lines |-> << >>]]
>>

Dirs == 1..Len(LoadTable)

\* Other directories that may lie under loadReviewDir.  "ok" tells whether
\* lrdre.match succeeds on the name, "base" is the path mo.group(1) then
\* gives; match() anchors the pattern at the start of the name only.
OddNames == <<
    \* the name of the first load followed by further characters
    [ok |-> TRUE, base |-> 1],
    \* a name the pattern does not match
    [ok |-> FALSE, base |-> None]
>>

AllDirs == 1..(Len(LoadTable) + Len(OddNames))

\* the directory whose name only extends the name of a load
SuffixedDir == Len(LoadTable) + 1

Matches(d) ==
    IF d \in Dirs THEN LoadTable[d].name.ok
    ELSE OddNames[d - Len(LoadTable)].ok

Group1(d) ==
    IF d \in Dirs THEN d ELSE OddNames[d - Len(LoadTable)].base

\* order of the path names: same root, then date, then revision letter
NameLess(d, e) ==
    \/ LoadTable[d].name.date < LoadTable[e].name.date
    \/ /\ LoadTable[d].name.date = LoadTable[e].name.date
       /\ LoadTable[d].name.rev < LoadTable[e].name.rev

(***************************************************************************)
(* Python list indexing                                                    *)
(***************************************************************************)
ValidIdx(s, i) == -Len(s) <= i /\ i < Len(s)
At(s, i) == IF i >= 0 THEN s[i + 1] ELSE s[Len(s) + i + 1]

stateTime(s, k) == At(s, k).time
stateVCDU(s, k) == At(s, k).vcdu

(***************************************************************************)
(* getRecentLoads: the possible results, one per order the sort may leave  *)
(* directories of equal modification time in                               *)
(***************************************************************************)
Perms(S) ==
    {f \in [1..Cardinality(S) -> S] :
        \A i, j \in 1..Cardinality(S) : i # j => f[i] # f[j]}

\* the paths left after the filter on the name and the pruning by date
ScanPaths(refMtime) ==
    LET rawlist == {d \in AllDirs : mtime[d] > 0 /\ mtime[d] > refMtime}
        dirlist == {Group1(d) : d \in {e \in rawlist : Matches(e)}}
    IN  {d \in dirlist :
            \A e \in dirlist :
                LoadTable[e].name.date = LoadTable[d].name.date
                    => ~NameLess(d, e)}

\* os.path.getmtime raises OSError on a path that does not exist
ScanFails(refMtime) == \E p \in ScanPaths(refMtime) : mtime[p] = 0

getRecentLoads(refMtime) ==
    LET pruned == ScanPaths(refMtime)
    IN  {f \in Perms(pruned) :
            \A i, j \in 1..Cardinality(pruned) :
                i < j => mtime[f[i]] >= mtime[f[j]]}

startTime(d) ==
    IF ~LoadTable[d].hrcsel.exists
    THEN [err |-> "IOError", val |-> None]
    ELSE [err |-> "none", val |-> LoadTable[d].hrcsel.first]

\* val is None when no line matches
firstTimeVCDU(d) ==
    IF ~LoadTable[d].svrdb.exists
    THEN [err |-> "IOError", val |-> None, tt |-> None, vv |-> None]
    ELSE IF Len(LoadTable[d].svrdb.lines) = 0
    THEN [err |-> "none", val |-> None, tt |-> None, vv |-> None]
    ELSE [err |-> "none", val |-> 1,
          tt |-> LoadTable[d].svrdb.lines[1].time,
          vv |-> LoadTable[d].svrdb.lines[1].vcdu]

\* no call of getRecentLoads observed
NoScan == [ref |-> None, err |-> "none", dirlist |-> << >>]

NullTracker ==
    [svrdb |-> << >>, currentStateIndex |-> 0, currentLoads |-> None,
     nextLoads |-> None, nextStart |-> NoAttr, nextFirstTime |-> NoAttr,
     nextFirstVCDU |-> NoAttr]

\* slurpState that forgets to reset currentStateIndex
slurpState_KeepIndex(st, dir) ==
    IF ~LoadTable[dir].svrdb.exists
    THEN [st |-> st, err |-> "IOError"]
    ELSE [st |-> [st EXCEPT !.svrdb = LoadTable[dir].svrdb.lines,
                            !.currentLoads = dir,
                            !.nextLoads = None],
          err |-> "none"]

slurpState(st, dir) ==
    IF ~LoadTable[dir].svrdb.exists
    THEN [st |-> st, err |-> "IOError"]
    ELSE [st |-> [st EXCEPT !.svrdb = LoadTable[dir].svrdb.lines,
                            !.currentStateIndex = startIndex,
                            !.currentLoads = dir,
                            !.nextLoads = None],
          err |-> "none"]

checkForNewLoadsWith(st, dirlist) ==
    IF Len(dirlist) = 0
    THEN [st |-> st, err |-> "none"]
    ELSE LET nextLoads == dirlist[1]
             nextStart == startTime(nextLoads)
             first     == firstTimeVCDU(nextLoads)
         IN  IF nextStart.err # "none" THEN [st |-> st, err |-> nextStart.err]
             ELSE IF first.err # "none" THEN [st |-> st, err |-> first.err]
             ELSE IF first.val = None THEN [st |-> st, err |-> "TypeError"]
             ELSE IF nextStart.val # None /\ first.vv # 0
             THEN [st |-> [st EXCEPT !.nextLoads = nextLoads,
                                     !.nextStart = nextStart.val,
                                     !.nextFirstTime = first.tt,
                                     !.nextFirstVCDU = first.vv],
                   err |-> "none"]
             ELSE [st |-> st, err |-> "none"]

checkForNewLoads(st) ==
    LET ref == IF st.nextLoads # None THEN st.nextLoads ELSE st.currentLoads
    IN  IF ScanFails(mtime[ref]) THEN {[st |-> st, err |-> "OSError"]}
        ELSE {checkForNewLoadsWith(st, dirlist) :
                 dirlist \in getRecentLoads(mtime[ref])}

(***************************************************************************)
(* checkAndChangeLoads                                                     *)
(***************************************************************************)
\* the two operands of the "or" in the if statement: "yes", "no", or the
\* exception that evaluating the operand raises
ChangeVCDU(st, atVCDU) ==
    LET klast == Len(st.svrdb) - 1 IN
    IF atVCDU = None THEN "no"
    ELSE IF st.nextFirstVCDU = NoAttr THEN "AttributeError"
    ELSE IF atVCDU >= st.nextFirstVCDU THEN "yes"
    ELSE IF ~ValidIdx(st.svrdb, klast) THEN "IndexError"
    ELSE IF atVCDU >= stateVCDU(st.svrdb, klast) THEN "yes"
    ELSE "no"

ChangeTime(st, atTime) ==
    LET klast == Len(st.svrdb) - 1 IN
    IF atTime = None THEN "no"
    ELSE IF st.nextFirstTime = NoAttr THEN "AttributeError"
    ELSE IF atTime >= st.nextFirstTime THEN "yes"
    ELSE IF ~ValidIdx(st.svrdb, klast) THEN "IndexError"
    ELSE IF atTime >= stateTime(st.svrdb, klast) THEN "yes"
    ELSE "no"

ChangeCond(st, atTime, atVCDU) ==
    IF ChangeVCDU(st, atVCDU) # "no" THEN ChangeVCDU(st, atVCDU)
    ELSE ChangeTime(st, atTime)

checkAndChangeLoads(st, atTime, atVCDU) ==
    LET c == ChangeCond(st, atTime, atVCDU) IN
    IF c \in {"AttributeError", "IndexError"}
    THEN {[st |-> st, err |-> c, sw |-> 0]}
    ELSE IF c = "no"
    THEN {[st |-> st, err |-> "none", sw |-> 0]}
    ELSE IF st.nextLoads # None
    THEN LET s1 == slurpState(st, st.nextLoads) IN
         IF s1.err # "none"
         THEN {[st |-> s1.st, err |-> s1.err, sw |-> 0]}
         ELSE {[st |-> o.st, err |-> o.err, sw |-> 1] :
                  o \in checkForNewLoads(s1.st)}
    ELSE {[st |-> st, err |-> "NoNewLoads", sw |-> 0]}

(***************************************************************************)
(* The searches.  Each returns the tracker with currentStateIndex moved    *)
(* and the exception, if any, that indexing svrdb raises.                  *)
(***************************************************************************)
RECURSIVE FwdTime(_, _, _)
FwdTime(s, i, atTime) ==
    IF i < Len(s)
    THEN IF stateTime(s, i) > atTime THEN i ELSE FwdTime(s, i + 1, atTime)
    ELSE i

RECURSIVE BwdTime(_, _, _)
BwdTime(s, i, atTime) ==
    IF i > startIndex
    THEN IF stateTime(s, i) <= atTime THEN i ELSE BwdTime(s, i - 1, atTime)
    ELSE i

RECURSIVE FwdVCDU(_, _, _)
FwdVCDU(s, i, atVCDU) ==
    IF i < Len(s)
    THEN IF deltaVCDU(stateVCDU(s, i), atVCDU) < 0 THEN i
         ELSE FwdVCDU(s, i + 1, atVCDU)
    ELSE i

RECURSIVE BwdVCDU(_, _, _)
BwdVCDU(s, i, atVCDU) ==
    IF i > startIndex
    THEN IF deltaVCDU(stateVCDU(s, i), atVCDU) >= 0 THEN i
         ELSE BwdVCDU(s, i - 1, atVCDU)
    ELSE i

\* the bisection with a strict comparison: equal time tags send it left
RECURSIVE BinTime_Strict(_, _, _, _)
BinTime_Strict(s, klo, khi, atTime) ==
    IF khi > klo + 1
    THEN LET k == (klo + khi) \div 2 IN
         IF atTime > stateTime(s, k) THEN BinTime_Strict(s, k, khi, atTime)
         ELSE BinTime_Strict(s, klo, k, atTime)
    ELSE klo

RECURSIVE BinTime(_, _, _, _)
BinTime(s, klo, khi, atTime) ==
    IF khi > klo + 1
    THEN LET k == (klo + khi) \div 2 IN
         IF atTime >= stateTime(s, k) THEN BinTime(s, k, khi, atTime)
         ELSE BinTime(s, klo, k, atTime)
    ELSE klo

RECURSIVE BinVCDU(_, _, _, _)
BinVCDU(s, klo, khi, atVCDU) ==
    IF khi > klo + 1
    THEN LET k == (klo + khi) \div 2 IN
         IF deltaVCDU(stateVCDU(s, k), atVCDU) >= 0 THEN BinVCDU(s, k, khi, atVCDU)
         ELSE BinVCDU(s, klo, k, atVCDU)
    ELSE klo

\* self.currentStateIndex = i; return self.svrdb[self.currentStateIndex]
SetIndex(st, i) ==
    [st  |-> [st EXCEPT !.currentStateIndex = i],
     err |-> IF ValidIdx(st.svrdb, i) THEN "none" ELSE "IndexError"]

LinearTime(st, atTime) ==
    IF ~ValidIdx(st.svrdb, st.currentStateIndex)
    THEN [st |-> st, err |-> "IndexError"]
    ELSE IF atTime >= stateTime(st.svrdb, st.currentStateIndex)
    THEN SetIndex(st, FwdTime(st.svrdb, st.currentStateIndex + 1, atTime) - 1)
    ELSE SetIndex(st, BwdTime(st.svrdb, st.currentStateIndex - 1, atTime))

LinearVCDU(st, atVCDU) ==
    IF ~ValidIdx(st.svrdb, st.currentStateIndex)
    THEN [st |-> st, err |-> "IndexError"]
    ELSE IF deltaVCDU(stateVCDU(st.svrdb, st.currentStateIndex), atVCDU) >= 0
    THEN SetIndex(st, FwdVCDU(st.svrdb, st.currentStateIndex + 1, atVCDU) - 1)
    ELSE SetIndex(st, BwdVCDU(st.svrdb, st.currentStateIndex - 1, atVCDU))

BinaryTime(st, atTime) ==
    SetIndex(st, BinTime(st.svrdb, startIndex, Len(st.svrdb), atTime))

BinaryVCDU(st, atVCDU) ==
    SetIndex(st, BinVCDU(st.svrdb, startIndex, Len(st.svrdb), atVCDU))

\* the search r follows checkAndChangeLoads c unless c raised
Then(c, r) ==
    IF c.err # "none" THEN c
    ELSE [st |-> r.st, err |-> r.err, sw |-> c.sw]

getStateAtTime(st, atTime) ==
    {Then(c, LinearTime(c.st, atTime)) :
        c \in checkAndChangeLoads(st, atTime, None)}

getStateAtVCDU(st, atVCDU) ==
    {Then(c, LinearVCDU(c.st, atVCDU)) :
        c \in checkAndChangeLoads(st, None, atVCDU)}

binaryGetStateAtTime(st, atTime) ==
    {Then(c, BinaryTime(c.st, atTime)) :
        c \in checkAndChangeLoads(st, atTime, None)}

binaryGetStateAtVCDU(st, atVCDU) ==
    {Then(c, BinaryVCDU(c.st, atVCDU)) :
        c \in checkAndChangeLoads(st, None, atVCDU)}

(***************************************************************************)
(* __init__                                                                *)
(***************************************************************************)
\* the for loop over dirlist: the directory chosen, None, or the exception
RECURSIVE FindCurrent(_, _, _)
FindCurrent(dirlist, i, current_time) ==
    IF i > Len(dirlist) THEN [err |-> "none", dir |-> None]
    ELSE LET start_time == startTime(dirlist[i]) IN
         IF start_time.err # "none" THEN [err |-> start_time.err, dir |-> None]
         ELSE IF start_time.val # None /\ start_time.val <= current_time
         THEN [err |-> "none", dir |-> dirlist[i]]
         ELSE FindCurrent(dirlist, i + 1, current_time)

\* the outcomes of CurrentLoad(loadReviewDir): the object, or the exception
Constructor(earlier, current_time) ==
    IF ScanFails(earlier) THEN {[st |-> NullTracker, err |-> "OSError"]}
    ELSE
    UNION {
        LET f == FindCurrent(dirlist, 1, current_time) IN
        IF f.err # "none" THEN {[st |-> NullTracker, err |-> f.err]}
        ELSE IF f.dir = None THEN {[st |-> NullTracker, err |-> "NoActiveLoads"]}
        ELSE LET s1 == slurpState(NullTracker, f.dir) IN
             IF s1.err # "none" THEN {[st |-> NullTracker, err |-> s1.err]}
             ELSE {IF o.err # "none" THEN [st |-> NullTracker, err |-> o.err]
                   ELSE o : o \in checkForNewLoads(s1.st)}
        : dirlist \in getRecentLoads(earlier)}

(***************************************************************************)
(* State machine                                                           *)
(***************************************************************************)
Outcome(op, arg, err, sw) == [op |-> op, arg |-> arg, err |-> err, sw |-> sw]

Init ==
    /\ mtime = [d \in AllDirs |-> 0]
    /\ pc = "start"
    /\ loads = NullTracker
    /\ last = Outcome("none", None, "none", 0)
    /\ da = 0
    /\ db = 0
    /\ dres = << >>
    /\ scan = NoScan

\* a load review directory appears under loadReviewDir
AddLoad(d, m) ==
    /\ mtime[d] = 0
    /\ mtime' = [mtime EXCEPT ![d] = m]
    /\ last' = Outcome("AddLoad", None, "none", 0)
    /\ UNCHANGED <<pc, loads, da, db, dres, scan>>

Construct(earlier, current_time) ==
    /\ pc \in {"start", "failed"}
    /\ \E o \in Constructor(earlier, current_time) :
          /\ loads' = o.st
          /\ pc' = IF o.err = "none" THEN "ready" ELSE "failed"
          /\ last' = Outcome("__init__", current_time, o.err, 0)
    /\ UNCHANGED <<mtime, da, db, dres, scan>>

CallCheckForNewLoads ==
    /\ pc = "ready"
    /\ \E o \in checkForNewLoads(loads) :
          /\ loads' = o.st
          /\ last' = Outcome("checkForNewLoads", None, o.err, 0)
    /\ UNCHANGED <<mtime, pc, da, db, dres, scan>>

Call(op, arg, outcomes) ==
    /\ pc = "ready"
    /\ \E o \in outcomes :
          /\ loads' = o.st
          /\ last' = Outcome(op, arg, o.err, o.sw)
    /\ UNCHANGED <<mtime, pc, da, db, dres, scan>>

CallGetStateAtTime(atTime) ==
    Call("getStateAtTime", atTime, getStateAtTime(loads, atTime))

CallGetStateAtVCDU(atVCDU) ==
    Call("getStateAtVCDU", atVCDU, getStateAtVCDU(loads, atVCDU))

CallBinaryGetStateAtTime(atTime) ==
    Call("binaryGetStateAtTime", atTime, binaryGetStateAtTime(loads, atTime))

CallBinaryGetStateAtVCDU(atVCDU) ==
    Call("binaryGetStateAtVCDU", atVCDU, binaryGetStateAtVCDU(loads, atVCDU))

Next ==
    \/ \E d \in Dirs, m \in Mtimes : AddLoad(d, m)
    \/ \E earlier \in 0..(MaxMtime - 1), current_time \in Times :
          Construct(earlier, current_time)
    \/ CallCheckForNewLoads
    \/ \E atTime \in Times : CallGetStateAtTime(atTime)
    \/ \E atVCDU \in VQuery : CallGetStateAtVCDU(atVCDU)
    \/ \E atTime \in Times : CallBinaryGetStateAtTime(atTime)
    \/ \E atVCDU \in VQuery : CallBinaryGetStateAtVCDU(atVCDU)

Spec == Init /\ [][Next]_vars

(***************************************************************************)
(* The tracker among directories of any name, read by bisection only       *)
(***************************************************************************)
NextPlan ==
    \/ \E d \in Dirs \cup {SuffixedDir}, m \in Mtimes : AddLoad(d, m)
    \/ \E earlier \in 0..(MaxMtime - 1), current_time \in Times :
          Construct(earlier, current_time)
    \/ CallCheckForNewLoads
    \/ \E atTime \in Times : CallBinaryGetStateAtTime(atTime)
    \/ \E atVCDU \in VQuery : CallBinaryGetStateAtVCDU(atVCDU)

SpecPlan == Init /\ [][NextPlan]_vars

(***************************************************************************)
(* getRecentLoads on its own: the directories are drawn in the initial     *)
(* state                                                                   *)
(***************************************************************************)
InitScan ==
    /\ mtime \in [AllDirs -> 0..MaxMtime]
    /\ pc = "start"
    /\ loads = NullTracker
    /\ last = Outcome("none", None, "none", 0)
    /\ da = 0
    /\ db = 0
    /\ dres = << >>
    /\ scan = NoScan

CallGetRecentLoads(refMtime) ==
    /\ scan = NoScan
    /\ IF ScanFails(refMtime)
       THEN scan' = [ref |-> refMtime, err |-> "OSError", dirlist |-> << >>]
       ELSE \E dirlist \in getRecentLoads(refMtime) :
               scan' = [ref |-> refMtime, err |-> "none", dirlist |-> dirlist]
    /\ UNCHANGED <<mtime, pc, loads, last, da, db, dres>>

NextScan == \E refMtime \in 0..MaxMtime : CallGetRecentLoads(refMtime)

SpecScan == InitScan /\ [][NextScan]_vars

(***************************************************************************)
(* deltaVCDU on its own: the inputs are drawn in the initial state         *)
(***************************************************************************)
InitDelta ==
    /\ mtime = [d \in AllDirs |-> 0]
    /\ pc = "start"
    /\ loads = NullTracker
    /\ last = Outcome("none", None, "none", 0)
    /\ da \in CounterVals
    /\ db \in CounterVals
    /\ dres = << >>
    /\ scan = NoScan

CallDeltaVCDU ==
    /\ dres = << >>
    /\ dres' = <<deltaVCDU(da, db), deltaVCDU(db, da)>>
    /\ UNCHANGED <<mtime, pc, loads, last, da, db, scan>>

NextDelta == CallDeltaVCDU

SpecDelta == InitDelta /\ [][NextDelta]_vars

(***************************************************************************)
(* Vocabulary of the properties                                            *)
(***************************************************************************)
TimeOps == {"getStateAtTime", "binaryGetStateAtTime"}
VCDUOps == {"getStateAtVCDU", "binaryGetStateAtVCDU"}
QueryOps == TimeOps \cup VCDUOps

\* arguments of checkAndChangeLoads in the query that outcome l reports
ArgTime(l) == IF l.op \in TimeOps THEN l.arg ELSE None
ArgVCDU(l) == IF l.op \in VCDUOps THEN l.arg ELSE None

InRange(st) ==
    /\ startIndex <= st.currentStateIndex
    /\ st.currentStateIndex <= Len(st.svrdb) - 1

SetMax(S) == CHOOSE x \in S : \A y \in S : y <= x

\* indices from startIndex on whose time tag is exactly T
TieSet(s, T) == {k \in startIndex..(Len(s) - 1) : stateTime(s, k) = T}

\* the query of outcome l crosses the end of the active load of st
CrossesEnd(st, l) ==
    /\ Len(st.svrdb) > 0
    /\ \/ l.op \in TimeOps /\ l.arg >= stateTime(st.svrdb, Len(st.svrdb) - 1)
       \/ /\ l.op \in VCDUOps
          /\ deltaVCDU(stateVCDU(st.svrdb, Len(st.svrdb) - 1), l.arg) >= 0

\* the switch condition for a counter query as the design states it
DeltaRequired(st, V) ==
    \/ deltaVCDU(stateVCDU(st.svrdb, Len(st.svrdb) - 1), V) >= 0
    \/ st.nextLoads # None /\ deltaVCDU(st.nextFirstVCDU, V) >= 0

\* directories the scanner reports as newer than the active load of st
NewerThanActive(st) ==
    {d \in Dirs : /\ mtime[d] > 0
                  /\ mtime[d] > mtime[st.currentLoads]
                  /\ LoadTable[d].name.ok}

(***************************************************************************)
(* C1: on a well-formed load, from every cursor position in                *)
(* [startIndex, len-1] and for every time T that does not cause a load     *)
(* switch, getStateAtTime leaves the tracker exactly where                 *)
(* binaryGetStateAtTime leaves it (same index, same record).               *)
(* The code violates it: see C3.                                           *)
(***************************************************************************)
C1_LinearBinaryTimeAgree ==
    [][(/\ last'.op = "getStateAtTime"
        /\ ChangeCond(loads, last'.arg, None) = "no"
        /\ InRange(loads))
       => (/\ last'.err = "none"
           /\ loads' = BinaryTime(loads, last'.arg).st)]_vars

(***************************************************************************)
(* C2: the same for the counter queries: getStateAtVCDU and                *)
(* binaryGetStateAtVCDU resolve the same index when no switch happens.     *)
(***************************************************************************)
C2_LinearBinaryVCDUAgree ==
    [][(/\ last'.op = "getStateAtVCDU"
        /\ ChangeCond(loads, None, last'.arg) = "no"
        /\ InRange(loads))
       => (/\ last'.err = "none"
           /\ loads' = BinaryVCDU(loads, last'.arg).st)]_vars

(***************************************************************************)
(* C3: in every reachable state of a constructed tracker, cursorIndex      *)
(* (currentStateIndex) lies in [startIndex, len(svrdb)-1].                 *)
(***************************************************************************)
C3_CursorInRange == pc = "ready" => InRange(loads)

(***************************************************************************)
(* C4: two successive linear time queries on the same load (the second     *)
(* causes no switch) with non-decreasing times resolve non-decreasing      *)
(* indices.                                                                *)
(***************************************************************************)
C4_MonotoneTimeQueries ==
    [][(/\ last.op = "getStateAtTime" /\ last.err = "none"
        /\ last'.op = "getStateAtTime" /\ last'.err = "none"
        /\ last'.sw = 0
        /\ last'.arg >= last.arg)
       => loads'.currentStateIndex >= loads.currentStateIndex]_vars

(***************************************************************************)
(* C5: with a pending load known, a counter query V switches loads exactly *)
(* when delta(lastCounter, V) >= 0 or delta(activationCounter, V) >= 0.    *)
(***************************************************************************)
C5_SwitchIffDelta ==
    [][(/\ last'.op \in VCDUOps
        /\ loads.nextLoads # None)
       => ((last'.sw = 1) <=> DeltaRequired(loads, last'.arg))]_vars

(***************************************************************************)
(* C6: when the active load ends just below the wrap, the pending load's   *)
(* first record has a small counter c (cyclically after the active load's  *)
(* last counter) and the query V is at or shortly after c, the query       *)
(* switches once and resolves a record of the new load at an index in      *)
(* [startIndex, len-1].                                                    *)
(***************************************************************************)
C6_WrapTransition ==
    [][(/\ last'.op \in VCDUOps
        /\ loads.nextLoads # None
        /\ Len(loads.svrdb) > 0
        /\ loads.nextFirstVCDU < stateVCDU(loads.svrdb, Len(loads.svrdb) - 1)
        /\ deltaVCDU(stateVCDU(loads.svrdb, Len(loads.svrdb) - 1),
                     loads.nextFirstVCDU) > 0
        /\ last'.arg >= loads.nextFirstVCDU
        /\ deltaVCDU(loads.nextFirstVCDU, last'.arg) >= 0)
       => (/\ last'.sw = 1
           /\ last'.err = "none"
           /\ loads'.currentLoads = loads.nextLoads
           /\ InRange(loads'))]_vars

(***************************************************************************)
(* C7: a query that crosses the end of the active load while no pending    *)
(* load is known fails with "No new loads found" and leaves the tracker    *)
(* as it was.                                                              *)
(***************************************************************************)
C7_NoNewLoadsFound ==
    [][(/\ last'.op \in QueryOps
        /\ loads.nextLoads = None
        /\ CrossesEnd(loads, last'))
       => (/\ last'.err = "NoNewLoads"
           /\ loads' = loads)]_vars

C9_TieBreakLast ==
    [][(/\ last'.op \in TimeOps
        /\ last'.err \in {"none", "IndexError"}
        /\ last'.sw = 0 => InRange(loads)
        /\ Cardinality(TieSet(loads'.svrdb, last'.arg)) >= 2)
       => (/\ last'.err = "none"
           /\ loads'.currentStateIndex = SetMax(TieSet(loads'.svrdb, last'.arg)))]_vars

\* a linear query resolved the later of two records with the same time,
\* scanning backward from beyond them
C9_Witness ==
    /\ pc = "ready"
    /\ last.op = "getStateAtTime" /\ last.err = "none"
    /\ Cardinality(TieSet(loads.svrdb, last.arg)) >= 2
    /\ loads.currentStateIndex = SetMax(TieSet(loads.svrdb, last.arg))

(***************************************************************************)
(* C10: deltaVCDU(a, b) = -deltaVCDU(b, a) for all counters a, b that are  *)
(* not exactly half a cycle apart.                                         *)
(***************************************************************************)
C10_Antisymmetric ==
    (dres # << >> /\ (db - da) % vcduWrap # vcduWrap \div 2)
        => dres[1] = -dres[2]

\* the difference was taken across the wrap
C10_Witness ==
    /\ dres # << >>
    /\ da = vcduWrap - 1 /\ db = 0
    /\ dres[1] = 1

TypeOK ==
    /\ pc \in {"start", "ready", "failed"}
    /\ mtime \in [AllDirs -> 0..MaxMtime]

(***************************************************************************)
(* C11 as stated: deltaVCDU(a, b) is congruent to b - a modulo 2^24 and    *)
(* lies in the half-open interval (-2^23, 2^23]; it never returns -2^23.   *)
(***************************************************************************)
C11_HalfOpenRange ==
    dres # << >>
        => /\ (dres[1] - (db - da)) % vcduWrap = 0
           /\ -(vcduWrap \div 2) < dres[1]
           /\ dres[1] <= vcduWrap \div 2

(***************************************************************************)
(* C11 amended: deltaVCDU(a, b) is congruent to b - a modulo 2^24 and lies *)
(* in the closed interval [-2^23, 2^23]; it returns -2^23 exactly when     *)
(* b - a = -2^23 and +2^23 exactly when b - a = 2^23.                      *)
(***************************************************************************)
C11_ClosedRange ==
    dres # << >>
        => /\ (dres[1] - (db - da)) % vcduWrap = 0
           /\ -(vcduWrap \div 2) <= dres[1]
           /\ dres[1] <= vcduWrap \div 2
           /\ dres[1] = -(vcduWrap \div 2) <=> db - da = -(vcduWrap \div 2)
           /\ dres[1] = vcduWrap \div 2 <=> db - da = vcduWrap \div 2

\* the difference of two antipodal counters, taken downward
C11_Witness ==
    /\ dres # << >>
    /\ db - da = -(vcduWrap \div 2)
    /\ dres[1] = -(vcduWrap \div 2)

\* C12: whenever a pending candidate is present it is a different load from
\* the active one and its directory was modified strictly later than the
\* active load's directory.
C12_PendingNewer ==
    pc = "ready" /\ loads.nextLoads # None
        => /\ loads.nextLoads # loads.currentLoads
           /\ mtime[loads.nextLoads] > mtime[loads.currentLoads]

\* the reference directory of the next refresh
RefreshRef(st) ==
    IF st.nextLoads # None THEN st.nextLoads ELSE st.currentLoads

\* the directories a refresh may take as its candidate (dirlist[0])
Candidates(st) ==
    IF ScanFails(mtime[RefreshRef(st)]) THEN {}
    ELSE {dirlist[1] :
             dirlist \in {f \in getRecentLoads(mtime[RefreshRef(st)]) :
                             Len(f) > 0}}

\* the first command time or the first state vector cannot be read
Unreadable(d) ==
    startTime(d).val = None \/ firstTimeVCDU(d).val = None

\* C13: a refresh whose newer candidate has no readable first command time
\* or no readable first state vector completes without raising and leaves
\* the tracker, in particular the pending candidate, as it was.
C13_DiscardUnreadable ==
    [][(/\ last'.op = "checkForNewLoads"
        /\ Candidates(loads) # {}
        /\ \A d \in Candidates(loads) : Unreadable(d))
           => last'.err = "none" /\ loads' = loads]_vars

\* the scanned candidates whose first command time is readable and not
\* later than current_time
Qualifying(earlier, current_time) ==
    {d \in ScanPaths(earlier) :
        /\ startTime(d).val # None
        /\ startTime(d).val <= current_time}

\* what construction is to leave behind for a scan from "earlier"
Constructed(earlier, current_time) ==
    LET q == Qualifying(earlier, current_time) IN
    IF q = {}
    THEN pc' = "failed" /\ last'.err = "NoActiveLoads"
    ELSE /\ pc' = "ready"
         /\ last'.err = "none"
         /\ loads'.currentLoads \in q
         /\ \A d \in q : mtime[d] <= mtime[loads'.currentLoads]
         /\ loads'.svrdb = LoadTable[loads'.currentLoads].svrdb.lines
         /\ loads'.currentStateIndex = startIndex

\* C14: construction activates the most recently modified scanned
\* candidate whose first command time is not later than the current time,
\* with the cursor at startIndex, and fails with "Failed to locate active
\* loads" exactly when no candidate qualifies.
C14_Construction ==
    [][last'.op = "__init__"
          => \E earlier \in 0..(MaxMtime - 1) :
                Constructed(earlier, last'.arg)]_vars

\* the conventionally named load directories modified after the reference
NewerLoads(refMtime) ==
    {d \in Dirs : LoadTable[d].name.ok /\ mtime[d] > 0 /\ mtime[d] > refMtime}

\* of these, the greatest name of each date
LatestPerDate(refMtime) ==
    {d \in NewerLoads(refMtime) :
        \A e \in NewerLoads(refMtime) :
            LoadTable[e].name.date = LoadTable[d].name.date => ~NameLess(d, e)}

\* C15: the scanner raises nothing on directories of other names and
\* returns exactly the newer load directories with the greatest name of
\* their date, one path each, most recently modified first.
C15_Scanner ==
    scan # NoScan
        => /\ scan.err = "none"
           /\ {scan.dirlist[i] : i \in 1..Len(scan.dirlist)}
                  = LatestPerDate(scan.ref)
           /\ Len(scan.dirlist) = Cardinality(LatestPerDate(scan.ref))
           /\ \A i, j \in 1..Len(scan.dirlist) :
                  i < j => mtime[scan.dirlist[i]] >= mtime[scan.dirlist[j]]

\* the tracker has switched loads and the refresh that followed cached
\* nothing: the activation time and counter it holds are those of the load
\* that is now active
BoundarySpent(st) ==
    st.nextLoads = None /\ st.nextFirstTime # NoAttr

\* C16: once a switch has left no pending load, a query that stays before
\* the last state vector of the active load (by time, or cyclically by
\* counter) switches nothing and raises nothing.
C16_BoundaryRetired ==
    [][(/\ last'.op \in QueryOps
        /\ BoundarySpent(loads)
        /\ InRange(loads)
        /\ ~CrossesEnd(loads, last'))
           => /\ last'.err = "none"
              /\ last'.sw = 0
              /\ loads'.currentLoads = loads.currentLoads]_vars

\* C17: a refresh whose newer candidate has a readable first command time
\* and a first state vector with VCDU 0 caches that candidate as pending,
\* with activation counter 0.
C17_ZeroCounterCached ==
    [][(/\ last'.op = "checkForNewLoads"
        /\ Candidates(loads) # {}
        /\ \A d \in Candidates(loads) :
              ~Unreadable(d) /\ firstTimeVCDU(d).vv = 0)
           => /\ last'.err = "none"
              /\ loads'.nextLoads \in Candidates(loads)
              /\ loads'.nextFirstVCDU = 0]_vars

\* no two directories under loadReviewDir have the same modification time,
\* so that the order of every scan is fixed
DistinctMtimes ==
    \A d, e \in AllDirs :
        d # e /\ mtime[d] > 0 /\ mtime[e] > 0 => mtime[d] # mtime[e]

\* C18: a refresh that directly follows a refresh, with the directories
\* and their modification times unchanged in between, leaves the tracker
\* as the first refresh left it.
C18_RefreshIdempotent ==
    [][(/\ last.op = "checkForNewLoads"
        /\ last'.op = "checkForNewLoads"
        /\ DistinctMtimes)
           => loads' = loads]_vars

\* the switch condition for a time query as the design states it
TimeRequired(st, T) ==
    \/ T >= stateTime(st.svrdb, Len(st.svrdb) - 1)
    \/ st.nextLoads # None /\ T >= st.nextFirstTime

\* the query of outcome l requires a switch of the tracker st
SwitchRequired(st, l) ==
    \/ l.op \in TimeOps /\ TimeRequired(st, l.arg)
    \/ l.op \in VCDUOps /\ DeltaRequired(st, l.arg)

\* C19: a query that requires no switch changes nothing but
\* currentStateIndex, and a refresh changes nothing but the pending load
\* with its start time, activation time and activation counter.
C19_Frame ==
    [][/\ (last'.op \in QueryOps /\ ~SwitchRequired(loads, last'))
           => loads' = [loads EXCEPT
                           !.currentStateIndex = loads'.currentStateIndex]
       /\ last'.op = "checkForNewLoads"
           => /\ loads'.currentLoads = loads.currentLoads
              /\ loads'.svrdb = loads.svrdb
              /\ loads'.currentStateIndex = loads.currentStateIndex]_vars

\* C20: every step of a constructed tracker that switches loads, or
\* changes the active load in any way, installs a load whose directory was
\* modified strictly later than that of the load it replaces; only
\* queries switch, and at most once.
C20_ForwardOnly ==
    [][(pc = "ready" /\ pc' = "ready")
          => /\ last'.sw \in {0, 1}
             /\ last'.sw = 1 => last'.op \in QueryOps
             /\ (last'.sw = 1 \/ loads'.currentLoads # loads.currentLoads)
                   => mtime[loads'.currentLoads]
                          > mtime[loads.currentLoads]]_vars

====
